---- MODULE Spec2Model ----
(***************************************************************************)
(* Margin / risk engine of finance_scripts (financial_engineering.py, with *)
(* margin.py as its earlier draft).                                        *)
(*                                                                         *)
(* Representation                                                          *)
(*  - a Python str is a sequence of one-character strings;                 *)
(*  - a call's outcome is Val(x) (it returned x) or Err(exc, why) (it      *)
(*    raised exc);                                                         *)
(*  - a dict is a function whose DOMAIN is its key set;                    *)
(*  - prices and sizes are integers; every price a feeder supplies is a    *)
(*    multiple of PriceUnit, so that the mean of one, two or three sources *)
(*    is an even integer (the average is exact and round(x, 3) never meets *)
(*    a tie); percentages are per-mille integers and margin contributions  *)
(*    are in thousandths of a collateral unit.                             *)
(***************************************************************************)
EXTENDS Integers, Sequences, FiniteSets, TLC

VARIABLES
    enum_str,   \* how IntEnum.__str__ prints a member under the interpreter in use
    vault,      \* the caller's current Vault
    prices,     \* the Prices snapshot
    ret         \* the last call: its name, its arguments and its outcome

vars == <<enum_str, vault, prices, ret>>

----------------------------------------------------------------------------
(* Outcomes of a call *)

Val(x) == [ok |-> TRUE, v |-> x]

Err(exc, why) == [ok |-> FALSE, exc |-> exc, why |-> why]

\* the call goes on with the value r returned, or ends as r raised
Then(r, F(_)) == IF r.ok THEN F(r.v) ELSE r

Abs(x) == IF x < 0 THEN -x ELSE x

Min(a, b) == IF a <= b THEN a ELSE b

Max(a, b) == IF a >= b THEN a ELSE b

----------------------------------------------------------------------------
(* Type definitions *)

INITIAL == 1
MAINTENANCE == 2
MarginType == {INITIAL, MAINTENANCE}

PERPETUAL == 1
FUTURE == 2
OPTION_CALL == 3
OPTION_PUT == 4
Instrument == {PERPETUAL, FUTURE, OPTION_CALL, OPTION_PUT}

USDC == 1
ETH == 2
BTC == 3
ASSET_OPTION_PUT == 4
Asset == {USDC, ETH, BTC, ASSET_OPTION_PUT}

----------------------------------------------------------------------------
(* Python strings *)

Digits == <<"0", "1", "2", "3", "4", "5", "6", "7", "8", "9">>

DigitValue(c) == CHOOSE i \in 0..9 : Digits[i + 1] = c

IsDigit(c) == \E i \in 0..9 : Digits[i + 1] = c

RECURSIVE NatToStr(_)
NatToStr(n) == IF n < 10 THEN <<Digits[n + 1]>>
               ELSE NatToStr(n \div 10) \o <<Digits[(n % 10) + 1]>>

\* int.__str__
IntToStr(n) == IF n < 0 THEN <<"-">> \o NatToStr(-n) ELSE NatToStr(n)

RECURSIVE DigitsToNat(_)
DigitsToNat(s) == IF s = <<>> THEN 0
                  ELSE 10 * DigitsToNat(SubSeq(s, 1, Len(s) - 1)) + DigitValue(s[Len(s)])

\* int(s) for a str s: an optional sign followed by decimal digits; anything
\* else (a ':' or a letter in particular) raises ValueError
py_int(s) ==
    LET neg == s # <<>> /\ s[1] = "-"
        body == IF neg THEN Tail(s) ELSE s
    IN IF body # <<>> /\ \A i \in 1..Len(body) : IsDigit(body[i])
       THEN Val(IF neg THEN -DigitsToNat(body) ELSE DigitsToNat(body))
       ELSE Err("ValueError", "invalid literal for int()")

RECURSIVE Join(_, _)
Join(parts, sep) == IF Len(parts) = 0 THEN <<>>
                    ELSE IF Len(parts) = 1 THEN parts[1]
                    ELSE parts[1] \o sep \o Join(Tail(parts), sep)

RECURSIVE Split(_, _)
\* str.split(sep) for a one-character separator
Split(s, sep) ==
    IF \A i \in 1..Len(s) : s[i] # sep THEN <<s>>
    ELSE LET k == CHOOSE i \in 1..Len(s) :
                      s[i] = sep /\ \A j \in 1..(i - 1) : s[j] # sep
         IN <<SubSeq(s, 1, k - 1)>> \o Split(SubSeq(s, k + 1, Len(s)), sep)

InstrumentName(i) ==
    <<"I", "n", "s", "t", "r", "u", "m", "e", "n", "t", ".">> \o
    CASE i = PERPETUAL -> <<"P", "E", "R", "P", "E", "T", "U", "A", "L">>
      [] i = FUTURE -> <<"F", "U", "T", "U", "R", "E">>
      [] i = OPTION_CALL -> <<"O", "P", "T", "I", "O", "N", "_", "C", "A", "L", "L">>
      [] i = OPTION_PUT -> <<"O", "P", "T", "I", "O", "N", "_", "P", "U", "T">>

AssetName(a) ==
    <<"A", "s", "s", "e", "t", ".">> \o
    CASE a = USDC -> <<"U", "S", "D", "C">>
      [] a = ETH -> <<"E", "T", "H">>
      [] a = BTC -> <<"B", "T", "C">>
      [] a = ASSET_OPTION_PUT -> <<"O", "P", "T", "I", "O", "N", "_", "P", "U", "T">>

\* IntEnum.__str__: int.__str__ since Python 3.11, "Class.MEMBER" before
EnumStrStyles == {"value", "name"}

instrument_str(i) == IF enum_str = "value" THEN IntToStr(i) ELSE InstrumentName(i)

asset_str(a) == IF enum_str = "value" THEN IntToStr(a) ELSE AssetName(a)

\* Enum.__call__: look a member up by value. The argument is a Python value,
\* tagged with its type; a str never equals an int member value.
PyStr(s) == [t |-> "str", v |-> s]

PyInt(n) == [t |-> "int", v |-> n]

EnumLookup(members, x) ==
    IF x.t = "int" /\ x.v \in members THEN Val(x.v)
    ELSE Err("ValueError", "not a valid enum member")

----------------------------------------------------------------------------
(* Derivative codec *)

encode_a(a) == asset_str(a)

decode_a(asset_id) == EnumLookup(Asset, PyStr(asset_id))

Derivative(instrument, underlying_asset, resolution, expiration_date, strike_price) ==
    [instrument |-> instrument, underlying_asset |-> underlying_asset,
     resolution |-> resolution, expiration_date |-> expiration_date,
     strike_price |-> strike_price]

encode_d(d) ==
    Join(<<instrument_str(d.instrument),
           asset_str(d.underlying_asset),
           IntToStr(d.resolution),
           IntToStr(d.expiration_date),
           IntToStr(d.strike_price)>>, <<":">>)

\* parts[i] of a Python list (0-based i), IndexError past the end
ListItem(parts, i) == IF i + 1 <= Len(parts) THEN Val(parts[i + 1])
                      ELSE Err("IndexError", "list index out of range")

\* decode_d past the split. The five constructor arguments are evaluated
\* left to right; the first one that raises ends the call.
decode_parts(parts) ==
    Then(Then(ListItem(parts, 0), LAMBDA s0 : EnumLookup(Instrument, PyStr(s0))),
         LAMBDA instrument :
    Then(Then(ListItem(parts, 1), LAMBDA s1 : EnumLookup(Asset, PyStr(s1))),
         LAMBDA underlying_asset :
    Then(Then(ListItem(parts, 2), LAMBDA s2 : py_int(s2)),
         LAMBDA resolution :
    Then(Then(ListItem(parts, 3), LAMBDA s3 : py_int(s3)),
         LAMBDA expiration_date :
    Then(Then(ListItem(parts, 4), LAMBDA s4 : py_int(s4)),
         LAMBDA strike_price :
    Val(Derivative(instrument, underlying_asset, resolution,
                   expiration_date, strike_price)))))))

decode_d(asset_id) == decode_parts(Split(asset_id, ":"))

----------------------------------------------------------------------------
(* Vault *)

Position(asset_id, balance, cached_funding_index) ==
    [asset_id |-> asset_id, balance |-> balance,
     cached_funding_index |-> cached_funding_index]

Vault(public_key, collateral, collateral_balance, positions) ==
    [public_key |-> public_key, collateral |-> collateral,
     collateral_balance |-> collateral_balance, positions |-> positions]

----------------------------------------------------------------------------
(* Price state and configuration *)

Prices(oracle_index, market, moving_avg, settled) ==
    [oracle_index |-> oracle_index, market |-> market,
     moving_avg |-> moving_avg, settled |-> settled]

\* str(0x003000232000000)
SETTLEMENT_KEY ==
    <<"8", "4", "4", "4", "3", "4", "3", "5", "8", "9", "2", "7", "3", "6", "0">>

\* int(SETTLEMENT_MASK) = 0x004000fff000000, as the set of its one-bits
SETTLEMENT_MASK_BITS == (24..35) \cup {50}

\* tenths: 1.3
PORTFOLIO_MARGIN_INITIAL_MULTIPLIER == 13

AssetConfig(fvm, fim, fmm, oim, omm, srs, vrs, rfr) ==
    [future_variable_margin |-> fvm,
     future_initial_margin |-> fim,
     future_maintenance_margin |-> fmm,
     option_initial_margin |-> oim,
     option_maintenance_margin |-> omm,
     spot_range_simulation |-> srs,
     vol_range_simulation |-> vrs,
     risk_free_rate |-> rfr]

\* percentages in per-mille: 0.01, 0.02, 0.05, 0.10, 0.2, 0.45, 0.0
ASSET_CONFIG ==
    [a \in {ETH, BTC} |-> AssetConfig(50000, 10, 20, 50, 100, 200, 450, 0)]

\* conf[underlying]
ConfigOf(conf, underlying) ==
    IF underlying \in DOMAIN conf THEN Val(conf[underlying])
    ELSE Err("KeyError", "conf")

----------------------------------------------------------------------------
(* Mark price computation *)

RECURSIVE SumSeq(_)
SumSeq(s) == IF s = <<>> THEN 0 ELSE s[1] + SumSeq(Tail(s))

\* sum(sources) / len(sources); exact on multiples of PriceUnit
Average(sources) ==
    IF Len(sources) = 0 THEN Err("ZeroDivisionError", "no price source")
    ELSE Val(SumSeq(sources) \div Len(sources))

\* d.get(key, None) followed by `if x != None: sources.append(x)`
Available(dict, key) == IF key \in DOMAIN dict THEN <<dict[key]>> ELSE <<>>

\* variant: divides by the number of feeds instead of the number of sources
get_spot_mark_price_by_three(asset_id, p) ==
    IF asset_id \notin DOMAIN p.oracle_index THEN Err("KeyError", "oracle_index")
    ELSE Val(SumSeq(<<p.oracle_index[asset_id]>>
                    \o Available(p.market, asset_id)
                    \o Available(p.moving_avg, asset_id)) \div 3)

get_spot_mark_price(asset_id, p) ==
    IF asset_id \notin DOMAIN p.oracle_index THEN Err("KeyError", "oracle_index")
    ELSE Average(<<p.oracle_index[asset_id]>>
                 \o Available(p.market, asset_id)
                 \o Available(p.moving_avg, asset_id))

RECURSIVE SumPow2(_)
SumPow2(bits) == IF bits = {} THEN 0
                 ELSE LET b == CHOOSE x \in bits : TRUE
                      IN 2^b + SumPow2(bits \ {b})

\* n & int(SETTLEMENT_MASK), for 0 <= n < 2^31
AndSettlementMask(n) ==
    SumPow2({b \in SETTLEMENT_MASK_BITS : b <= 30 /\ (n \div 2^b) % 2 = 1})

\* an Optional result: a price, or None
Some(x) == [ok |-> TRUE, none |-> FALSE, v |-> x]

None == [ok |-> TRUE, none |-> TRUE]

\* `if settled_price != None: <Settled> ... <Otherwise>` on the outcome of
\* get_deriv_settled_price
IfSettled(settled_price, Settled(_), Otherwise) ==
    IF ~settled_price.ok THEN settled_price
    ELSE IF ~settled_price.none THEN Settled(settled_price.v)
    ELSE Otherwise

\* get_deriv_settled_price once the settled map has an entry
settled_payoff(deriv, settled_price) ==
    IF deriv.instrument = FUTURE THEN Some(settled_price)
    ELSE IF deriv.instrument \in {OPTION_CALL, OPTION_PUT}
         THEN Some(Max(0, settled_price - deriv.strike_price))
    ELSE None

settled_lookup(key, asset_id, p) ==
    IF key \notin DOMAIN p.settled THEN None
    ELSE Then(decode_d(asset_id), LAMBDA deriv : settled_payoff(deriv, p.settled[key]))

\* str(int(asset_id) & int(SETTLEMENT_MASK))
settlement_key(asset_id) ==
    Then(py_int(asset_id), LAMBDA n : Val(IntToStr(AndSettlementMask(n))))

get_deriv_settled_price(asset_id, p) ==
    Then(settlement_key(asset_id), LAMBDA key : settled_lookup(key, asset_id, p))

\* variant: an empty source list prices the derivative at zero
deriv_mark_sources_or_zero(deriv, asset_id, p) ==
    IF deriv.instrument \in {PERPETUAL, FUTURE}
    THEN IF encode_a(deriv.underlying_asset) \notin DOMAIN p.oracle_index
         THEN Err("KeyError", "oracle_index")
         ELSE Average(<<p.oracle_index[encode_a(deriv.underlying_asset)]>>
                      \o Available(p.market, asset_id)
                      \o Available(p.moving_avg, asset_id))
    ELSE IF Available(p.market, asset_id) \o Available(p.moving_avg, asset_id) = <<>>
         THEN Val(0)
    ELSE Average(Available(p.market, asset_id) \o Available(p.moving_avg, asset_id))

\* get_deriv_mark_price from `sources = []` on: deriv is the decoded descriptor
deriv_mark_sources(deriv, asset_id, p) ==
    IF deriv.instrument \in {PERPETUAL, FUTURE}
    THEN IF encode_a(deriv.underlying_asset) \notin DOMAIN p.oracle_index
         THEN Err("KeyError", "oracle_index")
         ELSE Average(<<p.oracle_index[encode_a(deriv.underlying_asset)]>>
                      \o Available(p.market, asset_id)
                      \o Available(p.moving_avg, asset_id))
    ELSE Average(Available(p.market, asset_id) \o Available(p.moving_avg, asset_id))

get_deriv_mark_price(asset_id, p) ==
    IfSettled(get_deriv_settled_price(asset_id, p),
              LAMBDA settled_price : Val(settled_price),
              Then(decode_d(asset_id),
                   LAMBDA deriv : deriv_mark_sources(deriv, asset_id, p)))

----------------------------------------------------------------------------
(* Margin computation *)

\* amounts (margins, balances) are carried in thousandths: 10^3
Thousandths == 10 * 10 * 10

\* the integer nearest to num / den (den > 0), ties to even
RoundHalfEven(num, den) ==
    LET q == num \div den
        r == num - q * den
    IN IF 2 * r < den THEN q
       ELSE IF 2 * r > den THEN q + 1
       ELSE IF q % 2 = 0 THEN q ELSE q + 1

\* round(num / den, 3), in per-mille
Round3(num, den) == RoundHalfEven(num * Thousandths, den)

\* variant: the test compares, `margin == MarginType.MAINTENANCE`
MemberMAINTENANCE_compared(margin) == IF margin = MAINTENANCE THEN MAINTENANCE ELSE 0

\* `margin.MAINTENANCE`: attribute access on a member reaches the class
\* attribute, the member MAINTENANCE itself, whatever `margin` is
MemberMAINTENANCE(margin) == MAINTENANCE

\* truth value of an IntEnum member: that of its int value
Truthy(n) == n # 0

\* variant: the contribution keeps the sign of the notional (no abs)
simple_margin_term_signed(deriv, size, deriv_mark_price, p, c, margin) ==
    IF deriv.instrument \in {PERPETUAL, FUTURE}
    THEN Val((size * deriv_mark_price)
             * Min(Thousandths,
                   (IF Truthy(MemberMAINTENANCE(margin))
                    THEN c.future_maintenance_margin
                    ELSE c.future_initial_margin)
                   + Round3(size * deriv_mark_price, c.future_variable_margin)))
    ELSE IF deriv.instrument \in {OPTION_CALL, OPTION_PUT} /\ size < 0
    THEN Then(get_spot_mark_price(encode_a(deriv.underlying_asset), p),
              LAMBDA spot :
                  Val(size * spot
                          * (IF Truthy(MemberMAINTENANCE(margin))
                             THEN c.option_maintenance_margin
                             ELSE c.option_initial_margin)
                      + (size * deriv_mark_price) * Thousandths))
    ELSE Val(0)

\* get_vault_simple_margin, one pass of the loop from the choice of
\* fixed_margin on: what the position adds to total_margin (thousandths).
\* deriv_notional is size * deriv_mark_price.
simple_margin_term(deriv, size, deriv_mark_price, p, c, margin) ==
    IF deriv.instrument \in {PERPETUAL, FUTURE}
    THEN Val(Abs((size * deriv_mark_price)
                 * Min(Thousandths,
                       (IF Truthy(MemberMAINTENANCE(margin))
                        THEN c.future_maintenance_margin
                        ELSE c.future_initial_margin)
                       + Round3(size * deriv_mark_price, c.future_variable_margin))))
    ELSE IF deriv.instrument \in {OPTION_CALL, OPTION_PUT} /\ size < 0
    THEN Then(get_spot_mark_price(encode_a(deriv.underlying_asset), p),
              LAMBDA spot :
                  Val(Abs(size * spot
                              * (IF Truthy(MemberMAINTENANCE(margin))
                                 THEN c.option_maintenance_margin
                                 ELSE c.option_initial_margin)
                          + (size * deriv_mark_price) * Thousandths)))
    ELSE Val(0)

\* one pass of the loop for a position that is not settled
simple_margin_position(position, p, conf, margin) ==
    Then(decode_d(position.asset_id), LAMBDA deriv :
    Then(get_deriv_mark_price(position.asset_id, p), LAMBDA mark_price :
    Then(ConfigOf(conf, deriv.underlying_asset), LAMBDA c :
    simple_margin_term(deriv, position.balance, mark_price, p, c, margin))))

RECURSIVE simple_margin_loop(_, _, _, _, _)
simple_margin_loop(positions, total_margin, p, conf, margin) ==
    IF positions = <<>> THEN Val(total_margin)
    ELSE IfSettled(
             get_deriv_settled_price(Head(positions).asset_id, p),
             LAMBDA settled_price :
                 simple_margin_loop(Tail(positions), total_margin, p, conf, margin),
             Then(simple_margin_position(Head(positions), p, conf, margin),
                  LAMBDA term :
                      simple_margin_loop(Tail(positions), total_margin + term,
                                         p, conf, margin)))

get_vault_simple_margin(v, p, conf, margin) ==
    simple_margin_loop(v.positions, 0, p, conf, margin)

\* get_vault_portfolio_margin, first loop: the positions whose asset_id has
\* no entry in prices.settled (looked up under the asset_id itself), each
\* with its decoded descriptor
\* get_vault_portfolio_margin's own test for a settled position:
\* prices.settled.get(position.asset_id, None) != None, the settled map
\* looked up under the identity itself
portfolio_skips(position, p) == position.asset_id \in DOMAIN p.settled

RECURSIVE portfolio_partition(_, _)
portfolio_partition(positions, p) ==
    IF positions = <<>> THEN Val(<<>>)
    ELSE IF portfolio_skips(Head(positions), p)
         THEN portfolio_partition(Tail(positions), p)
    ELSE Then(decode_d(Head(positions).asset_id), LAMBDA deriv :
         Then(portfolio_partition(Tail(positions), p), LAMBDA rest :
         Val(<<[position |-> Head(positions), deriv |-> deriv]>> \o rest)))

\* variant: the initial-margin buffer is applied to both margin types
portfolio_margin_of_buffered(max_loss_pnl, margin) ==
    (PORTFOLIO_MARGIN_INITIAL_MULTIPLIER * Abs(max_loss_pnl)) \div 10

\* get_vault_portfolio_margin, last step: "Account for maintenance/initial
\* margin" (max_loss_pnl and the result in thousandths)
portfolio_margin_of(max_loss_pnl, margin) ==
    IF margin = INITIAL
    THEN (PORTFOLIO_MARGIN_INITIAL_MULTIPLIER * Abs(max_loss_pnl)) \div 10
    ELSE Abs(max_loss_pnl)

\* the scenarios of one underlying, in the order of the two nested loops
\* over [spot_range_simulation, -spot_range_simulation] and
\* [vol_range_simulation, -vol_range_simulation]
scenarios(c) ==
    << <<c.spot_range_simulation, c.vol_range_simulation>>,
       <<c.spot_range_simulation, -c.vol_range_simulation>>,
       <<-c.spot_range_simulation, c.vol_range_simulation>>,
       <<-c.spot_range_simulation, -c.vol_range_simulation>> >>

\* current_iv = iv_cache.get(asset_id, implied_volatility(...)) followed by
\* iv_cache[asset_id] = current_iv, for one option position in one
\* scenario: the default argument is evaluated before get is called, so the
\* solver runs whether or not asset_id is cached. solved is what the solver
\* returns; st holds iv_cache and the number of solver invocations so far.
option_iv_pass(asset_id, solved, st) ==
    [iv_cache |-> [k \in DOMAIN st.iv_cache \cup {asset_id} |->
                      IF k \in DOMAIN st.iv_cache THEN st.iv_cache[k] ELSE solved],
     solver_calls |-> st.solver_calls + 1]

\* the option branch of the loop body over the first n scenarios of one
\* underlying, starting from an empty iv_cache
RECURSIVE option_iv_passes(_, _, _)
option_iv_passes(n, asset_id, solved) ==
    IF n = 0 THEN [iv_cache |-> <<>>, solver_calls |-> 0]
    ELSE option_iv_pass(asset_id, solved, option_iv_passes(n - 1, asset_id, solved))

\* what a perpetual or future adds to simulation_pnl in one scenario, in
\* thousandths (spot_move in per-mille):
\* size * (spot_mark_price * (1 + spot_move) - spot_mark_price)
future_pnl_term(size, spot_mark_price, spot_move) ==
    size * (spot_mark_price * (Thousandths + spot_move)
            - spot_mark_price * Thousandths)

\* variant: a put adds what a call adds
option_pnl_term_as_call(deriv, size, unit_pnl) ==
    IF size > 0 THEN Max(0, size * unit_pnl) ELSE Min(0, size * unit_pnl)

\* what an option adds to simulation_pnl in one scenario, from
\* unit_pnl = simulated_price - mark_price
option_pnl_term(deriv, size, unit_pnl) ==
    IF deriv.instrument = OPTION_CALL
    THEN (IF size > 0 THEN Max(0, size * unit_pnl) ELSE Min(0, size * unit_pnl))
    ELSE (IF size > 0 THEN -Max(0, size * unit_pnl) ELSE -Min(0, size * unit_pnl))

\* one pass of the loop over the positions of an underlying, in thousandths;
\* simulated_price is what black_scholes returns for an option
scenario_pnl_term(deriv, asset_id, size, spot_mark_price, spot_move, simulated_price, p) ==
    IF deriv.instrument \in {PERPETUAL, FUTURE}
    THEN Val(future_pnl_term(size, spot_mark_price, spot_move))
    ELSE IF deriv.instrument \in {OPTION_CALL, OPTION_PUT}
    THEN IF asset_id \notin DOMAIN p.market THEN Err("KeyError", "market")
         ELSE Val(Thousandths
                  * option_pnl_term(deriv, size, simulated_price - p.market[asset_id]))
    ELSE Val(0)

\* within one underlying's positions, an option without a market quote is
\* met before anything else fails: prices.market[asset_id] raises
MeetsUnquotedOption(mine, p) ==
    \E i \in 1..Len(mine) :
        /\ mine[i].deriv.instrument \in {OPTION_CALL, OPTION_PUT}
        /\ mine[i].position.asset_id \notin DOMAIN p.market

\* get_vault_portfolio_margin, second loop, for the first underlying of
\* position_by_asset: max_loss_pnl_by_asset[underlying] is read before it
\* was ever assigned, so the pass over the first spot_move ends in KeyError
\* unless conf, the spot price or an option's market quote failed before
portfolio_scenarios(parts, p, conf) ==
    Then(ConfigOf(conf, parts[1].deriv.underlying_asset), LAMBDA c :
    Then(get_spot_mark_price(encode_a(parts[1].deriv.underlying_asset), p),
         LAMBDA spot_mark_price :
    IF MeetsUnquotedOption(
           SelectSeq(parts, LAMBDA x : x.deriv.underlying_asset
                                           = parts[1].deriv.underlying_asset), p)
    THEN Err("KeyError", "market")
    ELSE Err("KeyError", "max_loss_pnl_by_asset")))

get_vault_portfolio_margin(v, p, conf, margin) ==
    Then(portfolio_partition(v.positions, p), LAMBDA parts :
    IF parts = <<>> THEN Val(portfolio_margin_of(0, margin))
    ELSE portfolio_scenarios(parts, p, conf))

\* variant: the simple margin is left out
get_vault_margin_portfolio_only(v, p, conf, margin) ==
    get_vault_portfolio_margin(v, p, conf, margin)

\* get_vault_margin, the min(...) of its return statement
vault_margin_of(simple, portfolio) == Min(simple, portfolio)

\* get_vault_margin for a vault that holds one non-settled position whose
\* simulated max loss is max_loss_pnl: the minimum of the position's simple
\* margin and of the portfolio margin of that loss
position_margin(deriv, size, deriv_mark_price, p, c, max_loss_pnl, margin) ==
    Then(simple_margin_term(deriv, size, deriv_mark_price, p, c, margin),
         LAMBDA simple :
             Val(vault_margin_of(simple, portfolio_margin_of(max_loss_pnl, margin))))

get_vault_margin(v, p, conf, margin) ==
    Then(get_vault_simple_margin(v, p, conf, margin), LAMBDA simple :
    Then(get_vault_portfolio_margin(v, p, conf, margin), LAMBDA portfolio :
    Val(vault_margin_of(simple, portfolio))))

----------------------------------------------------------------------------
(* Vault balance computation *)

\* financial_engineering.py: what one position adds to the balance
balance_term(size, mark_price) == size * mark_price

\* `balance += max(0, value)` for a long position, `min(0, value)` for a short
clamp(size, value) == IF size > 0 THEN Max(0, value) ELSE Min(0, value)

\* margin.py (the earlier draft): what one position adds to the balance
margin_py_balance_term(deriv, size, mark_price) ==
    IF deriv.instrument \in {PERPETUAL, FUTURE} THEN size * mark_price
    ELSE IF deriv.instrument = OPTION_CALL THEN clamp(size, size * mark_price)
    ELSE IF deriv.instrument = OPTION_PUT THEN -clamp(size, size * mark_price)
    ELSE 0

RECURSIVE balance_loop(_, _, _)
balance_loop(positions, balance, p) ==
    IF positions = <<>> THEN Val(balance)
    ELSE Then(get_deriv_mark_price(Head(positions).asset_id, p), LAMBDA mark_price :
              balance_loop(Tail(positions),
                           balance + balance_term(Head(positions).balance, mark_price),
                           p))

\* in thousandths
get_vault_balance(v, p) ==
    Then(balance_loop(v.positions, v.collateral_balance, p), LAMBDA balance :
         Val(Thousandths * balance))

get_vault_free_collateral(v, p, conf) ==
    Then(get_vault_balance(v, p), LAMBDA balance :
    Then(get_vault_margin(v, p, conf, MAINTENANCE), LAMBDA m :
    Val(balance - m)))

\* variant: a vault exactly at its maintenance margin is unhealthy
get_vault_status_strict(v, p, conf) ==
    Then(get_vault_balance(v, p), LAMBDA balance :
    Then(get_vault_margin(v, p, conf, MAINTENANCE), LAMBDA m :
    Val(balance > m)))

get_vault_status(v, p, conf) ==
    Then(get_vault_balance(v, p), LAMBDA balance :
    Then(get_vault_margin(v, p, conf, MAINTENANCE), LAMBDA m :
    Val(balance >= m)))

----------------------------------------------------------------------------
(* Derivative settlement *)

vault_apply_funding(v) == v

\* the loop of vault_apply_settlement: Val(<<new_balance, new_positions>>)
RECURSIVE settlement_loop(_, _, _, _)
settlement_loop(positions, new_balance, new_positions, p) ==
    IF positions = <<>> THEN Val(<<new_balance, new_positions>>)
    ELSE IfSettled(
             get_deriv_settled_price(Head(positions).asset_id, p),
             LAMBDA settled_price :
                 settlement_loop(Tail(positions),
                                 new_balance + Head(positions).balance * settled_price,
                                 new_positions, p),
             settlement_loop(Tail(positions), new_balance,
                             Append(new_positions, Head(positions)), p))

\* variant: new_positions is the input's own list, emptied before the loop
settlement_input_emptied(v, p) ==
    Vault(v.public_key, v.collateral, v.collateral_balance, <<>>)

\* the vault passed to vault_apply_settlement, after the call: the function
\* reads vault.collateral_balance and vault.positions, appends only to its
\* own new_positions and builds a new Vault; no attribute of the input and
\* no element of its list is assigned, whether the call returns or raises
settlement_input_after(v, p) == v

vault_apply_settlement(v, p) ==
    Then(settlement_loop(vault_apply_funding(v).positions,
                         vault_apply_funding(v).collateral_balance, <<>>, p),
         LAMBDA r : Val(Vault(vault_apply_funding(v).public_key,
                              vault_apply_funding(v).collateral, r[1], r[2])))

----------------------------------------------------------------------------
(* Inputs *)

MaxPositions == 2

\* lcm(1, 2, 3), doubled
PriceUnit == 2 * 2 * 3

Resolutions == {4}
ExpirationDates == {0, 12}
StrikePrices == {0, 24}

Derivatives ==
    {Derivative(i, a, r, e, k) :
        i \in Instrument, a \in Asset, r \in Resolutions,
        e \in ExpirationDates, k \in StrikePrices}

SAMPLE_PERP == Derivative(PERPETUAL, ETH, 4, 0, 0)
SAMPLE_FUTURE == Derivative(FUTURE, ETH, 4, 12, 0)
SAMPLE_CALL == Derivative(OPTION_CALL, ETH, 4, 12, 24)
SAMPLE_PUT == Derivative(OPTION_PUT, ETH, 4, 12, 24)

SampleDerivatives == {SAMPLE_PERP, SAMPLE_FUTURE, SAMPLE_CALL, SAMPLE_PUT}

Sizes == {-500, -8, -5, 5, 8, 500}

\* the positions a vault may hold, one per derivative
SamplePositions ==
    {Position(encode_d(SAMPLE_PERP), -5, 0),
     Position(encode_d(SAMPLE_FUTURE), 5, 0),
     Position(encode_d(SAMPLE_CALL), -5, 0),
     Position(encode_d(SAMPLE_PUT), 5, 0)}

PositionLists ==
    {ps \in UNION {[1..n -> SamplePositions] : n \in 0..MaxPositions} :
        \A i, j \in 1..Len(ps) : i # j => ps[i].asset_id # ps[j].asset_id}

CollateralBalances == {-PriceUnit, 0}

Vaults ==
    {Vault("0xdeadbeef", USDC, b, ps) : b \in CollateralBalances, ps \in PositionLists}

\* a dict from a set of <<key, value>> pairs with distinct keys
Dict(pairs) ==
    [k \in {q[1] : q \in pairs} |-> (CHOOSE q \in pairs : q[1] = k)[2]]

OracleIndexPrices ==
    Dict({<<encode_a(USDC), PriceUnit>>,
          <<encode_a(ETH), 10 * PriceUnit>>,
          <<encode_a(BTC), 20 * PriceUnit>>})

MarketPrices ==
    {Dict({}),
     Dict({<<encode_d(SAMPLE_CALL), 2 * PriceUnit>>, <<encode_d(SAMPLE_PUT), 0>>}),
     Dict({<<encode_a(ETH), 12 * PriceUnit>>,
           <<encode_d(SAMPLE_CALL), 2 * PriceUnit>>,
           <<encode_d(SAMPLE_PERP), 11 * PriceUnit>>})}

MovingAveragePrices ==
    {Dict({}),
     Dict({<<encode_a(ETH), 7 * PriceUnit>>,
           <<encode_d(SAMPLE_PUT), 3 * PriceUnit>>,
           <<encode_d(SAMPLE_FUTURE), 9 * PriceUnit>>})}

\* the settled map as the sample data keys it (a masked integer), and as
\* get_vault_portfolio_margin reads it (the asset_id itself)
SettlementPrices ==
    {Dict({}),
     Dict({<<SETTLEMENT_KEY, 3 * PriceUnit>>}),
     Dict({<<encode_d(SAMPLE_FUTURE), 3 * PriceUnit>>})}

PriceSnapshots ==
    {Prices(OracleIndexPrices, m, a, s) :
        m \in MarketPrices, a \in MovingAveragePrices, s \in SettlementPrices}

\* simple and portfolio margins handed to the return statement of
\* get_vault_margin, in thousandths
Margins == {0, 960, 4800}

\* option prices black_scholes returns in a scenario
SimulatedPrices == {0, 4 * PriceUnit}

\* sizes of the position followed through a scenario
ScenarioSizes == {-5, 5}

\* implied volatilities the solver returns, in per-mille
ImpliedVols == {300, 600}

\* simulated max losses handed to the last step of portfolio margin
MaxLossPnls == {-240000, 0, 120000}

----------------------------------------------------------------------------
(* The engine as a state machine: each action is one call on the current   *)
(* vault and snapshot, and leaves its outcome in ret until the caller has  *)
(* taken it                                                                *)

Returned(op, args, out) == [op |-> op, args |-> args, out |-> out]

\* calls are synchronous: one is made only when no outcome is pending
Idle == ret.op = "none"

Init ==
    /\ enum_str \in EnumStrStyles
    /\ vault \in Vaults
    /\ prices \in PriceSnapshots
    /\ ret = Returned("none", <<>>, None)

Call_decode_d ==
    \E d \in Derivatives :
        /\ Idle
        /\ ret' = Returned("decode_d", [d |-> d], decode_d(encode_d(d)))
        /\ UNCHANGED <<enum_str, vault, prices>>

Call_get_spot_mark_price ==
    \E a \in {USDC, ETH, BTC} :
        /\ Idle
        /\ ret' = Returned("get_spot_mark_price", [asset |-> a],
                           get_spot_mark_price(encode_a(a), prices))
        /\ UNCHANGED <<enum_str, vault, prices>>

Call_get_deriv_settled_price ==
    \E d \in SampleDerivatives :
        /\ Idle
        /\ ret' = Returned("get_deriv_settled_price", [d |-> d],
                           get_deriv_settled_price(encode_d(d), prices))
        /\ UNCHANGED <<enum_str, vault, prices>>

Call_get_deriv_mark_price ==
    \E d \in SampleDerivatives :
        /\ Idle
        /\ ret' = Returned("get_deriv_mark_price", [d |-> d],
                           get_deriv_mark_price(encode_d(d), prices))
        /\ UNCHANGED <<enum_str, vault, prices>>

\* get_deriv_mark_price past settlement and decoding
Step_deriv_mark_sources ==
    \E d \in SampleDerivatives :
        /\ Idle
        /\ ret' = Returned("deriv_mark_sources", [d |-> d],
                           deriv_mark_sources(d, encode_d(d), prices))
        /\ UNCHANGED <<enum_str, vault, prices>>

Call_get_vault_simple_margin ==
    \E m \in MarginType :
        /\ Idle
        /\ ret' = Returned("get_vault_simple_margin", [margin |-> m],
                           get_vault_simple_margin(vault, prices, ASSET_CONFIG, m))
        /\ UNCHANGED <<enum_str, vault, prices>>

\* one pass of the simple-margin loop on a decoded, priced position
Step_simple_margin_term ==
    \E d \in SampleDerivatives, size \in Sizes, m \in MarginType :
        LET mark == deriv_mark_sources(d, encode_d(d), prices)
        IN /\ Idle
           /\ mark.ok
           /\ ret' = Returned("simple_margin_term",
                              [d |-> d, size |-> size, mark_price |-> mark.v, margin |-> m],
                              simple_margin_term(d, size, mark.v, prices,
                                                 ASSET_CONFIG[d.underlying_asset], m))
           /\ UNCHANGED <<enum_str, vault, prices>>

Call_get_vault_portfolio_margin ==
    \E m \in MarginType :
        /\ Idle
        /\ ret' = Returned("get_vault_portfolio_margin", [margin |-> m],
                           get_vault_portfolio_margin(vault, prices, ASSET_CONFIG, m))
        /\ UNCHANGED <<enum_str, vault, prices>>

\* the last step of portfolio margin on a simulated max loss
Step_portfolio_margin_of ==
    \E x \in MaxLossPnls, m \in MarginType :
        /\ Idle
        /\ ret' = Returned("portfolio_margin_of", [max_loss_pnl |-> x, margin |-> m],
                           Val(portfolio_margin_of(x, m)))
        /\ UNCHANGED <<enum_str, vault, prices>>

\* the return statement of get_vault_margin on the two margins of a vault
Step_vault_margin_of ==
    \E simple \in Margins, portfolio \in Margins :
        /\ Idle
        /\ ret' = Returned("vault_margin_of",
                           [simple |-> simple, portfolio |-> portfolio],
                           Val(vault_margin_of(simple, portfolio)))
        /\ UNCHANGED <<enum_str, vault, prices>>

\* the settled test each margin calculator applies to a position, side by
\* side: get_deriv_settled_price in get_vault_simple_margin, the raw lookup
\* in get_vault_portfolio_margin
Step_settled_decision ==
    \E position \in SamplePositions :
        /\ Idle
        /\ ret' = Returned("settled_decision", [position |-> position],
                           Val([simple |-> get_deriv_settled_price(position.asset_id,
                                                                   prices),
                                portfolio |-> portfolio_skips(position, prices)]))
        /\ UNCHANGED <<enum_str, vault, prices>>

\* the second loop of get_vault_portfolio_margin on the partition of a vault
\* that holds one non-settled position
Step_portfolio_scenarios ==
    \E d \in SampleDerivatives, size \in Sizes :
        /\ Idle
        /\ ret' = Returned("portfolio_scenarios", [d |-> d, size |-> size],
                           portfolio_scenarios(
                               <<[position |-> Position(encode_d(d), size, 0),
                                  deriv |-> d]>>,
                               prices, ASSET_CONFIG))
        /\ UNCHANGED <<enum_str, vault, prices>>

\* one position's pass of the scenario loop, in scenario k of its underlying
Step_scenario_pnl_term ==
    \E d \in SampleDerivatives, size \in ScenarioSizes,
       simulated_price \in SimulatedPrices,
       k \in 1..Len(scenarios(ASSET_CONFIG[ETH])) :
        /\ Idle
        /\ ret' = Returned("scenario_pnl_term",
                           [d |-> d, size |-> size, scenario |-> k,
                            simulated_price |-> simulated_price],
                           Then(get_spot_mark_price(encode_a(d.underlying_asset), prices),
                                LAMBDA spot_mark_price :
                                    scenario_pnl_term(
                                        d, encode_d(d), size, spot_mark_price,
                                        scenarios(ASSET_CONFIG[d.underlying_asset])[k][1],
                                        simulated_price, prices)))
        /\ UNCHANGED <<enum_str, vault, prices>>

\* the option branch of the scenario loop of get_vault_portfolio_margin for
\* one option position, over the first n scenarios of its underlying
Step_option_iv_passes ==
    \E d \in {SAMPLE_CALL, SAMPLE_PUT}, solved \in ImpliedVols,
       n \in 1..Len(scenarios(ASSET_CONFIG[ETH])) :
        /\ Idle
        /\ ret' = Returned("option_iv_passes", [d |-> d, scenarios |-> n],
                           Val(option_iv_passes(n, encode_d(d), solved)))
        /\ UNCHANGED <<enum_str, vault, prices>>

\* the margin of a one-position vault under both margin types
Step_margin_by_type ==
    \E d \in SampleDerivatives, size \in Sizes, x \in MaxLossPnls :
        LET mark == deriv_mark_sources(d, encode_d(d), prices)
        IN /\ Idle
           /\ mark.ok
           /\ ret' = Returned("margin_by_type",
                              [d |-> d, size |-> size, mark_price |-> mark.v,
                               max_loss_pnl |-> x],
                              Val([initial |->
                                       position_margin(d, size, mark.v, prices,
                                                       ASSET_CONFIG[d.underlying_asset],
                                                       x, INITIAL),
                                   maintenance |->
                                       position_margin(d, size, mark.v, prices,
                                                       ASSET_CONFIG[d.underlying_asset],
                                                       x, MAINTENANCE)]))
           /\ UNCHANGED <<enum_str, vault, prices>>

Call_get_vault_margin ==
    \E m \in MarginType :
        /\ Idle
        /\ ret' = Returned("get_vault_margin", [margin |-> m],
                           get_vault_margin(vault, prices, ASSET_CONFIG, m))
        /\ UNCHANGED <<enum_str, vault, prices>>

Call_get_vault_balance ==
    /\ Idle
    /\ ret' = Returned("get_vault_balance", <<>>, get_vault_balance(vault, prices))
    /\ UNCHANGED <<enum_str, vault, prices>>

\* one pass of the balance loop on a decoded, priced position
Step_balance_term ==
    \E d \in SampleDerivatives, size \in Sizes :
        LET mark == deriv_mark_sources(d, encode_d(d), prices)
        IN /\ Idle
           /\ mark.ok
           /\ ret' = Returned("balance_term",
                              [d |-> d, size |-> size, mark_price |-> mark.v],
                              Val(balance_term(size, mark.v)))
           /\ UNCHANGED <<enum_str, vault, prices>>

\* the same pass in margin.py
Step_margin_py_balance_term ==
    \E d \in SampleDerivatives, size \in Sizes :
        LET mark == deriv_mark_sources(d, encode_d(d), prices)
        IN /\ Idle
           /\ mark.ok
           /\ ret' = Returned("margin_py_balance_term",
                              [d |-> d, size |-> size, mark_price |-> mark.v],
                              Val(margin_py_balance_term(d, size, mark.v)))
           /\ UNCHANGED <<enum_str, vault, prices>>

Call_get_vault_free_collateral ==
    /\ Idle
    /\ ret' = Returned("get_vault_free_collateral", <<>>,
                       get_vault_free_collateral(vault, prices, ASSET_CONFIG))
    /\ UNCHANGED <<enum_str, vault, prices>>

Call_get_vault_status ==
    /\ Idle
    /\ ret' = Returned("get_vault_status", <<>>,
                       get_vault_status(vault, prices, ASSET_CONFIG))
    /\ UNCHANGED <<enum_str, vault, prices>>

\* the call hands back a vault or raises, and leaves the vault it was given
\* as vault_apply_settlement leaves it
Call_vault_apply_settlement ==
    /\ Idle
    /\ ret' = Returned("vault_apply_settlement", [vault |-> vault],
                       vault_apply_settlement(vault, prices))
    /\ vault' = settlement_input_after(vault, prices)
    /\ UNCHANGED <<enum_str, prices>>

\* the caller takes the outcome of the call
TakeOutcome ==
    /\ ~Idle
    /\ ret' = Returned("none", <<>>, None)
    /\ UNCHANGED <<enum_str, vault, prices>>

Next ==
    \/ Call_decode_d
    \/ Call_get_spot_mark_price
    \/ Call_get_deriv_settled_price
    \/ Call_get_deriv_mark_price
    \/ Step_deriv_mark_sources
    \/ Call_get_vault_simple_margin
    \/ Step_simple_margin_term
    \/ Call_get_vault_portfolio_margin
    \/ Step_portfolio_margin_of
    \/ Step_settled_decision
    \/ Step_portfolio_scenarios
    \/ Step_scenario_pnl_term
    \/ Step_option_iv_passes
    \/ Step_margin_by_type
    \/ Step_vault_margin_of
    \/ Call_get_vault_margin
    \/ Call_get_vault_balance
    \/ Step_balance_term
    \/ Step_margin_py_balance_term
    \/ Call_get_vault_free_collateral
    \/ Call_get_vault_status
    \/ Call_vault_apply_settlement
    \/ TakeOutcome

Spec == Init /\ [][Next]_vars

----------------------------------------------------------------------------
(* Properties *)

IsFutureLike(d) == d.instrument \in {PERPETUAL, FUTURE}

IsOption(d) == d.instrument \in {OPTION_CALL, OPTION_PUT}

\* C1: the codec round-trips: decode_d(encode_d(d)) returns a Derivative
\* whose five fields are those of d, for every valid d.
C1_RoundTrip ==
    ret.op = "decode_d" => ret.out.ok /\ ret.out.v = ret.args.d

\* out is the minimum of two outcomes: the smaller value when both are
\* values, otherwise what the first of the two raised
IsMinOf(out, simple, portfolio) ==
    IF simple.ok /\ portfolio.ok
    THEN /\ out.ok
         /\ out.v <= simple.v
         /\ out.v <= portfolio.v
         /\ out.v \in {simple.v, portfolio.v}
    ELSE /\ ~out.ok
         /\ out = IF ~simple.ok THEN simple ELSE portfolio

\* C2: get_vault_margin is the minimum of the simple and the portfolio
\* margin of the same vault, snapshot, config and margin type: it returns
\* the smaller value when both return one, and otherwise ends as the first
\* of the two that raises (simple margin is evaluated first).
C2_MarginIsMinOfSimpleAndPortfolio ==
    /\ ret.op = "get_vault_margin" =>
        IsMinOf(ret.out,
                get_vault_simple_margin(vault, prices, ASSET_CONFIG, ret.args.margin),
                get_vault_portfolio_margin(vault, prices, ASSET_CONFIG, ret.args.margin))
    /\ ret.op = "vault_margin_of" =>
        IsMinOf(ret.out, Val(ret.args.simple), Val(ret.args.portfolio))

C2_MarginReturned ==
    /\ ret.op = "get_vault_margin"
    /\ ret.args.margin = INITIAL
    /\ ret.out.ok

\* C3: margins are never negative: a value returned by
\* get_vault_simple_margin or by get_vault_portfolio_margin is >= 0, and so
\* is every single contribution to the simple margin (whatever the sign of
\* the size and the instrument) and the margin derived from any simulated
\* max loss.
C3_MarginsNonNegative ==
    /\ ret.op \in {"get_vault_simple_margin", "get_vault_portfolio_margin",
                   "simple_margin_term"}
           => (ret.out.ok => ret.out.v >= 0)
    /\ ret.op = "portfolio_margin_of" => ret.out.v >= 0

C3_ShortPositionMargined ==
    /\ ret.op = "simple_margin_term"
    /\ ret.args.size < 0
    /\ ret.out.ok
    /\ ret.out.v > 0

AtLeast(more, less) == more.ok /\ more.v >= less

\* C4: simple margin is monotone in the size: with mark price and config
\* fixed, a size of the same sign and larger absolute value never
\* contributes less, for long and short perpetuals/futures and short options.
C4_SimpleMarginMonotone ==
    ret.op = "simple_margin_term" /\ ret.out.ok =>
        \A bigger \in Sizes :
            (bigger * ret.args.size > 0 /\ Abs(bigger) >= Abs(ret.args.size)) =>
                AtLeast(simple_margin_term(ret.args.d, bigger, ret.args.mark_price,
                                           prices,
                                           ASSET_CONFIG[ret.args.d.underlying_asset],
                                           ret.args.margin),
                        ret.out.v)

\* C5: settlement is idempotent: vault_apply_settlement returns a vault, and
\* applying it to that vault under the same snapshot returns it unchanged
\* (same collateral_balance, same position list).
C5_SettlementIdempotent ==
    ret.op = "vault_apply_settlement" =>
        /\ ret.out.ok
        /\ vault_apply_settlement(ret.out.v, prices) = ret.out

IsSettledPrice(settled_price) == settled_price.ok /\ ~settled_price.none

IsUnsettled(settled_price) == settled_price.ok /\ settled_price.none

SettledAmount(size, settled_price) ==
    IF IsSettledPrice(settled_price) THEN size * settled_price.v ELSE 0

RECURSIVE SettledValue(_, _)
SettledValue(positions, p) ==
    IF positions = <<>> THEN 0
    ELSE SettledAmount(Head(positions).balance,
                       get_deriv_settled_price(Head(positions).asset_id, p))
         + SettledValue(Tail(positions), p)

Unsettled(position) == IsUnsettled(get_deriv_settled_price(position.asset_id, prices))

\* C6: vault_apply_settlement returns a vault that keeps exactly the
\* positions that are not settled, in order, and whose collateral_balance
\* has grown by size * settled price of each settled position.
C6_SettlementRemovesSettled ==
    ret.op = "vault_apply_settlement" =>
        /\ ret.out.ok
        /\ ret.out.v.positions = SelectSeq(ret.args.vault.positions, Unsettled)
        /\ ret.out.v.collateral_balance =
               ret.args.vault.collateral_balance
               + SettledValue(ret.args.vault.positions, prices)

\* status is `balance >= m`, and that is `free >= 0`
StatusAgrees(status, balance, m, free) ==
    IF balance.ok /\ m.ok
    THEN /\ status.ok
         /\ status.v <=> (balance.v >= m.v)
         /\ free.ok
         /\ status.v <=> (free.v >= 0)
    ELSE ~status.ok

FreeCollateralAgrees(free, balance, m) ==
    IF balance.ok /\ m.ok
    THEN free.ok /\ free.v = balance.v - m.v
    ELSE ~free.ok

\* C7: get_vault_status is true exactly when the balance is at least the
\* MAINTENANCE margin, that is when the free collateral (balance minus
\* maintenance margin) is >= 0, and false otherwise; when the balance or the
\* margin cannot be evaluated neither can the status.
C7_StatusIsBalanceAtLeastMaintenance ==
    /\ ret.op = "get_vault_status" =>
           StatusAgrees(ret.out,
                        get_vault_balance(vault, prices),
                        get_vault_margin(vault, prices, ASSET_CONFIG, MAINTENANCE),
                        get_vault_free_collateral(vault, prices, ASSET_CONFIG))
    /\ ret.op = "get_vault_free_collateral" =>
           FreeCollateralAgrees(ret.out,
                                get_vault_balance(vault, prices),
                                get_vault_margin(vault, prices, ASSET_CONFIG, MAINTENANCE))

C7_VaultLiquidatable ==
    /\ ret.op = "get_vault_status"
    /\ ret.out.ok
    /\ ~ret.out.v

\* the rule of the claim: value for perpetuals and futures, the clamped
\* value for calls, its negation for puts
ClampedValue(d, size, value) ==
    IF IsFutureLike(d) THEN value
    ELSE IF d.instrument = OPTION_CALL
         THEN (IF size > 0 THEN Max(0, value) ELSE Min(0, value))
    ELSE -(IF size > 0 THEN Max(0, value) ELSE Min(0, value))

\* C8: a position's contribution to get_vault_balance is size * mark price
\* for perpetuals and futures and is clamped for options: max(0, value) for
\* a long call, min(0, value) for a short call, and the negation of the
\* clamped value for puts.
C8_BalanceClampsOptions ==
    ret.op = "balance_term" =>
        ret.out.v = ClampedValue(ret.args.d, ret.args.size,
                                 ret.args.size * ret.args.mark_price)

\* the feeds that have an entry under key
Present(key) ==
    {feed \in {prices.oracle_index, prices.market, prices.moving_avg} :
        key \in DOMAIN feed}

\* the sum of the entries of the three feeds under key
SumOfSources(key) ==
    SumSeq(Available(prices.oracle_index, key)
           \o Available(prices.market, key)
           \o Available(prices.moving_avg, key))

NumberOfSources(key) ==
    Len(Available(prices.oracle_index, key)
        \o Available(prices.market, key)
        \o Available(prices.moving_avg, key))

\* C9: get_spot_mark_price returns the arithmetic mean of the sources that
\* have an entry for the asset (oracle_index always among them), hence a
\* value between the smallest and the largest of them, and exactly the
\* oracle price when oracle_index is the only one.
C9_SpotMarkIsMeanOfSources ==
    ret.op = "get_spot_mark_price" =>
        /\ encode_a(ret.args.asset) \in DOMAIN prices.oracle_index
        /\ ret.out.ok
        /\ ret.out.v * NumberOfSources(encode_a(ret.args.asset))
               = SumOfSources(encode_a(ret.args.asset))
        /\ \E feed \in Present(encode_a(ret.args.asset)) :
               feed[encode_a(ret.args.asset)] <= ret.out.v
        /\ \E feed \in Present(encode_a(ret.args.asset)) :
               ret.out.v <= feed[encode_a(ret.args.asset)]
        /\ NumberOfSources(encode_a(ret.args.asset)) = 1 =>
               ret.out.v = prices.oracle_index[encode_a(ret.args.asset)]

C9_ThreeSourcesAveraged ==
    /\ ret.op = "get_spot_mark_price"
    /\ encode_a(ret.args.asset) \in DOMAIN prices.market
    /\ encode_a(ret.args.asset) \in DOMAIN prices.moving_avg
    /\ ret.out.ok
    /\ ret.out.v # prices.oracle_index[encode_a(ret.args.asset)]

Unquoted(d) ==
    /\ encode_d(d) \notin DOMAIN prices.market
    /\ encode_d(d) \notin DOMAIN prices.moving_avg

\* C10: pricing a non-settled option that has neither a market nor a
\* moving-average entry ends in an error and never in a price; a perpetual
\* or future always has the oracle index as a source, so its source list is
\* never empty.
C10_UnquotedOptionHasNoPrice ==
    /\ ret.op = "deriv_mark_sources" =>
           /\ IsOption(ret.args.d) /\ Unquoted(ret.args.d) => ~ret.out.ok
           /\ IsFutureLike(ret.args.d) => ret.out.ok
    /\ (/\ ret.op = "get_deriv_mark_price"
        /\ IsOption(ret.args.d)
        /\ Unquoted(ret.args.d)
        /\ ~IsSettledPrice(get_deriv_settled_price(encode_d(ret.args.d), prices)))
           => ~ret.out.ok

C10_UnquotedOptionRaised ==
    /\ ret.op = "deriv_mark_sources"
    /\ IsOption(ret.args.d)
    /\ Unquoted(ret.args.d)
    /\ ~ret.out.ok
    /\ ret.out.exc = "ZeroDivisionError"

\* the ratio of the claim on the magnitude of the notional, in per-mille
RatioOf(fixed_pct, notional, c) ==
    Min(Thousandths, fixed_pct + Round3(Abs(notional), c.future_variable_margin))

FuturePcts(c) == {c.future_initial_margin, c.future_maintenance_margin}

\* C11: a perpetual/future position, long or short, contributes
\* |notional| * min(1.0, fixed_pct + round(|notional| / divisor, 3)) to the
\* simple margin: |notional| itself once the ratio caps at 1.0 (the short
\* 500-unit example), and never more than |notional|.
C11_FutureContributionCapped ==
    (ret.op = "simple_margin_term" /\ IsFutureLike(ret.args.d)) =>
        /\ ret.out.ok
        /\ ret.out.v <= Abs(ret.args.size * ret.args.mark_price) * Thousandths
        /\ \E fixed_pct \in FuturePcts(ASSET_CONFIG[ret.args.d.underlying_asset]) :
               ret.out.v = Abs(ret.args.size * ret.args.mark_price)
                           * RatioOf(fixed_pct,
                                     ret.args.size * ret.args.mark_price,
                                     ASSET_CONFIG[ret.args.d.underlying_asset])

\* the fixed percentage the requested margin type selects
FuturePctOf(c, margin) ==
    IF margin = MAINTENANCE THEN c.future_maintenance_margin
    ELSE c.future_initial_margin

OptionPctOf(c, margin) ==
    IF margin = MAINTENANCE THEN c.option_maintenance_margin
    ELSE c.option_initial_margin

\* C12: the fixed percentage of the simple margin is the one the requested
\* MarginType selects: the maintenance percentage of the AssetConfig under
\* MAINTENANCE and the initial percentage under INITIAL, for perpetuals and
\* futures and for short options.
C12_FixedPctByMarginType ==
    (ret.op = "simple_margin_term" /\ ret.out.ok) =>
        /\ IsFutureLike(ret.args.d) =>
               ret.out.v = Abs((ret.args.size * ret.args.mark_price)
                               * Min(Thousandths,
                                     FuturePctOf(ASSET_CONFIG[ret.args.d.underlying_asset],
                                                 ret.args.margin)
                                     + Round3(ret.args.size * ret.args.mark_price,
                                              ASSET_CONFIG[ret.args.d.underlying_asset]
                                                  .future_variable_margin)))
        /\ (IsOption(ret.args.d) /\ ret.args.size < 0) =>
               ret.out.v = Abs(ret.args.size
                               * get_spot_mark_price(
                                     encode_a(ret.args.d.underlying_asset), prices).v
                               * OptionPctOf(ASSET_CONFIG[ret.args.d.underlying_asset],
                                             ret.args.margin)
                               + (ret.args.size * ret.args.mark_price) * Thousandths)

\* initial = 1.3 * maintenance, for two outcomes of the same evaluation
BufferedBy13(initial, maintenance) ==
    IF initial.ok /\ maintenance.ok
    THEN 10 * initial.v = PORTFOLIO_MARGIN_INITIAL_MULTIPLIER * maintenance.v
    ELSE ~initial.ok /\ ~maintenance.ok

\* C13: the portfolio margin is |total simulated max loss| * 1.3 under
\* INITIAL and |total simulated max loss| * 1.0 under MAINTENANCE, so for
\* the same vault and snapshot the INITIAL portfolio margin is 1.3 times the
\* MAINTENANCE one (and neither is returned when the other is not).
C13_InitialBufferOnly ==
    /\ ret.op = "portfolio_margin_of" =>
           /\ ret.args.margin = INITIAL =>
                  10 * ret.out.v = 13 * Abs(ret.args.max_loss_pnl)
           /\ ret.args.margin = MAINTENANCE =>
                  ret.out.v = Abs(ret.args.max_loss_pnl)
    /\ ret.op = "get_vault_portfolio_margin" =>
           BufferedBy13(get_vault_portfolio_margin(vault, prices, ASSET_CONFIG, INITIAL),
                        get_vault_portfolio_margin(vault, prices, ASSET_CONFIG, MAINTENANCE))

C13_LossBuffered ==
    /\ ret.op = "portfolio_margin_of"
    /\ ret.args.margin = INITIAL
    /\ ret.args.max_loss_pnl < 0
    /\ ret.out.v > Abs(ret.args.max_loss_pnl)

\* C14: in one evaluation of the portfolio margin the implied-volatility
\* solver runs exactly once per option identity: in the first scenario, the
\* cached value serving the other three.
C14_SolverRunsOnce ==
    ret.op = "option_iv_passes" =>
        /\ ret.out.v.solver_calls = 1
        /\ DOMAIN ret.out.v.iv_cache = {encode_d(ret.args.d)}

SameExpiry(d, e) ==
    /\ d.underlying_asset = e.underlying_asset
    /\ d.expiration_date = e.expiration_date

SameKey(key, other) == key.ok /\ other.ok /\ key.v = other.v

\* C15: the settled-price lookup is defined for every identity encode_d
\* produces, and two identities that share underlying asset and expiration
\* date are looked up under the same settlement key, whatever their strike
\* price and instrument.
C15_SettlementKeyShared ==
    ret.op = "get_deriv_settled_price" =>
        /\ ret.out.ok
        /\ \A e \in SampleDerivatives :
               SameExpiry(ret.args.d, e) =>
                   SameKey(settlement_key(encode_d(ret.args.d)),
                           settlement_key(encode_d(e)))

Evaluations ==
    {"get_vault_balance", "get_vault_simple_margin", "get_vault_portfolio_margin",
     "get_vault_margin", "get_vault_free_collateral", "get_vault_status",
     "vault_apply_settlement"}

SameOwner(out, v) ==
    out.ok => /\ out.v.public_key = v.public_key
              /\ out.v.collateral = v.collateral

ScenarioTotal(d, size, k) ==
    future_pnl_term(size,
                    get_spot_mark_price(encode_a(d.underlying_asset), prices).v,
                    scenarios(ASSET_CONFIG[d.underlying_asset])[k][1])

ScenarioNumbers == 1..4

\* C17: the portfolio margin evaluates four scenarios per underlying that
\* has a non-settled position and takes the minimum of the four scenario
\* totals as the underlying's max loss (summed over underlyings); it
\* produces this value for every vault with a non-settled position.
C17_MaxLossIsMinOfScenarios ==
    ret.op = "portfolio_scenarios" =>
        /\ ret.out.ok
        /\ IsFutureLike(ret.args.d) =>
               /\ \A k \in ScenarioNumbers :
                      ret.out.v <= ScenarioTotal(ret.args.d, ret.args.size, k)
               /\ \E k \in ScenarioNumbers :
                      ret.out.v = ScenarioTotal(ret.args.d, ret.args.size, k)

\* C18: in a portfolio-margin scenario, with unit_pnl = shocked price minus
\* baseline mark price, a long call adds max(0, size * unit_pnl), a short
\* call min(0, size * unit_pnl), a long put -max(0, size * unit_pnl), a
\* short put -min(0, size * unit_pnl), and a perpetual or future adds the
\* unclamped size * (spot * (1 + spot_shock) - spot).
C18_ScenarioPnlClamped ==
    (ret.op = "scenario_pnl_term" /\ ret.out.ok) =>
        IF IsFutureLike(ret.args.d)
        THEN ret.out.v = ScenarioTotal(ret.args.d, ret.args.size, ret.args.scenario)
        ELSE ret.out.v = Thousandths
                         * ClampedValue(ret.args.d, ret.args.size,
                                        ret.args.size
                                        * (ret.args.simulated_price
                                           - prices.market[encode_d(ret.args.d)]))

C18_LongPutGainNegated ==
    /\ ret.op = "scenario_pnl_term"
    /\ ret.args.d.instrument = OPTION_PUT
    /\ ret.args.size > 0
    /\ ret.out.ok
    /\ ret.out.v < 0

\* C19: both margin calculators decide "settled" the same way: a position
\* is left out of the portfolio margin's partition exactly when
\* get_deriv_settled_price finds a settled price for its identity, which is
\* when the simple margin skips it.
C19_SettledDecidedAlike ==
    ret.op = "settled_decision" =>
        /\ ret.out.v.simple.ok
        /\ IsSettledPrice(ret.out.v.simple) <=> ret.out.v.portfolio

\* |size * spot_mark_price * fixed_pct + size * mark_price|, in thousandths
ShortOptionMargin(size, spot, fixed_pct, mark_price) ==
    Abs(size * spot.v * fixed_pct + size * mark_price * Thousandths)

\* C20: a non-settled long option adds exactly zero to the simple margin,
\* and a non-settled short option adds
\* |size * spot mark price of the underlying * fixed_pct + size * mark price|
\* with fixed_pct the option percentage of the requested margin type.
C20_OptionSimpleMargin ==
    (ret.op = "simple_margin_term" /\ IsOption(ret.args.d)) =>
        /\ ret.out.ok
        /\ ret.args.size > 0 => ret.out.v = 0
        /\ ret.args.size < 0 =>
               ret.out.v = ShortOptionMargin(
                               ret.args.size,
                               get_spot_mark_price(encode_a(ret.args.d.underlying_asset),
                                                   prices),
                               OptionPctOf(ASSET_CONFIG[ret.args.d.underlying_asset],
                                           ret.args.margin),
                               ret.args.mark_price)

SameBalance(after, before) == after.ok /\ before.ok /\ after.v = before.v

\* C21: settlement conserves the balance: vault_apply_settlement returns a
\* vault whose get_vault_balance under the same snapshot equals that of the
\* vault it was given, and settling the returned vault again keeps it so.
C21_SettlementConservesBalance ==
    ret.op = "vault_apply_settlement" =>
        /\ ret.out.ok
        /\ SameBalance(get_vault_balance(ret.out.v, prices),
                       get_vault_balance(ret.args.vault, prices))
        /\ vault_apply_settlement(ret.out.v, prices).ok
        /\ SameBalance(get_vault_balance(vault_apply_settlement(ret.out.v, prices).v,
                                         prices),
                       get_vault_balance(ret.args.vault, prices))

NotBelow(initial, maintenance) ==
    (initial.ok /\ maintenance.ok) => initial.v >= maintenance.v

\* C22: the initial margin is never below the maintenance margin: whenever
\* get_vault_margin returns a value under both margin types for the same
\* vault, snapshot and config, the INITIAL value is >= the MAINTENANCE
\* value, also with a config (such as ASSET_CONFIG) whose initial
\* percentages are smaller than its maintenance percentages.
C22_InitialNotBelowMaintenance ==
    /\ ret.op = "get_vault_margin" =>
           NotBelow(get_vault_margin(vault, prices, ASSET_CONFIG, INITIAL),
                    get_vault_margin(vault, prices, ASSET_CONFIG, MAINTENANCE))
    /\ ret.op = "margin_by_type" =>
           NotBelow(ret.out.v.initial, ret.out.v.maintenance)

C22_InitialAboveMaintenance ==
    /\ ret.op = "margin_by_type"
    /\ ASSET_CONFIG[ret.args.d.underlying_asset].future_initial_margin
           < ASSET_CONFIG[ret.args.d.underlying_asset].future_maintenance_margin
    /\ ret.out.v.initial.ok
    /\ ret.out.v.maintenance.ok
    /\ ret.out.v.initial.v > ret.out.v.maintenance.v

====
